---- MODULE Spec2Model ----
(***************************************************************************)
(* CLog (src/Log.hpp): a logger with one message buffer per calling thread *)
(* and one mutex, m_LogLock.  Text is a sequence of one-character strings. *)
(* A thread's position inside a call is pc[t]; a member function that      *)
(* holds the lock over several reads of unlocked shared fields is split at *)
(* those reads, so that the unlocked setters (ShowLogLevel, SetNumFormat,  *)
(* Set*Callback) can run in between.  A read that races with such a write  *)
(* returns the value before or the value after the write.                  *)
(***************************************************************************)
EXTENDS Integers, Sequences, FiniteSets, TLC

\* ------------------------------------------------------------------ bounds
\* Number of logger calls started in one run.
MaxOps == 3

\* ------------------------------------------------------- platform constants
\* sizeof(long) on LP64, read by the binary loop of FormatIntegral.
SizeofLong == 8

\* One 16-bit limb holds values below LimbBase.
LimbBase == 2^16

Threads == {"t1", "t2"}
NoThread == "none"
\* std::map iterates in key order; the order of thread ids is fixed in a run.
ThreadSeq == <<"t1", "t2">>

\* ------------------------------------------------------------------- text
NUL == "\\0"
SP == " "

RECURSIVE Concat(_)
Concat(ss) == IF ss = <<>> THEN <<>> ELSE Head(ss) \o Concat(Tail(ss))

RECURSIVE Spaces(_)
Spaces(n) == IF n = 0 THEN <<>> ELSE <<SP>> \o Spaces(n - 1)

TagDebug == <<"d", "e", "b", "u", "g">>
TagInfo == <<"i", "n", "f", "o">>

\* ----------------------------------------------------------------- uint32_t
\* A uint32_t is <<high 16 bits, low 16 bits>>; the argument is an int in
\* -2^31 .. 2^31-1 converted as C converts it (modulo 2^32).
U32(n) ==
    IF n >= 0
    THEN <<n \div LimbBase, n % LimbBase>>
    ELSE LET m == (n + 2147483647) + 1
         IN <<(m \div LimbBase) + 32768, m % LimbBase>>

LeqU32(a, b) == a[1] < b[1] \/ (a[1] = b[1] /\ a[2] <= b[2])

U32ToNat(a) == a[1] * LimbBase + a[2]

\* ------------------------------------------------------------------ Buffer
\* Buffer::Buffer().  Time (time(nullptr)) is an input of the environment and
\* is rendered as one opaque stamp.
DefaultBuffer ==
    [Tag |-> <<>>, Message |-> <<>>, Level |-> U32(0),
     DebugMsg |-> FALSE, ShowTime |-> TRUE]

\* m_Buffers[id]: std::map::operator[] inserts a default Buffer when absent.
Subscript(bufs, t) ==
    IF t \in DOMAIN bufs THEN bufs ELSE bufs @@ (t :> DefaultBuffer)

\* Mutant of Erase: the entry stays in the map.
EraseNothing(bufs, t) == bufs

\* m_Buffers.erase(id)
Erase(bufs, t) == [u \in (DOMAIN bufs) \ {t} |-> bufs[u]]

\* Mutant of PutMessage: the text replaces the message (= for +=).
PutMessageAssign(bufs, t, text) ==
    [Subscript(bufs, t) EXCEPT ![t].Message = text]

\* Mutant of PutMessage: one buffer for all threads, the map's first key.
PutMessageShared(bufs, t, text) ==
    [Subscript(bufs, ThreadSeq[1]) EXCEPT ![ThreadSeq[1]].Message = @ \o text]

\* m_Buffers[id].Message += text
PutMessage(bufs, t, text) ==
    [Subscript(bufs, t) EXCEPT ![t].Message = @ \o text]

\* ---------------------------------------------------------- FormatIntegral
NLimbs == SizeofLong \div 2

\* The bit pattern of a long, least significant 16-bit limb first.
LongLimbs(Num) ==
    IF Num >= 0
    THEN [i \in 1..NLimbs |->
            IF i = 1 THEN Num % LimbBase
            ELSE IF i = 2 THEN Num \div LimbBase ELSE 0]
    ELSE LET m == (Num + 2147483647) + 1
         IN [i \in 1..NLimbs |->
               IF i = 1 THEN m % LimbBase
               ELSE IF i = 2 THEN (m \div LimbBase) + 32768
               ELSE LimbBase - 1]

IsZero(l) == \A i \in 1..NLimbs : l[i] = 0

\* One long division of the limbs by base, from the most significant limb:
\* <<quotient limbs, remainder>>.
RECURSIVE DivLimbs(_, _, _, _, _)
DivLimbs(l, base, i, carry, q) ==
    IF i = 0 THEN <<q, carry>>
    ELSE LET cur == carry * LimbBase + l[i]
         IN DivLimbs(l, base, i - 1, cur % base,
                     [q EXCEPT ![i] = cur \div base])

DigitChars ==
    <<"0", "1", "2", "3", "4", "5", "6", "7", "8", "9",
      "a", "b", "c", "d", "e", "f">>

RECURSIVE Digits(_, _)
Digits(l, base) ==
    IF IsZero(l) THEN <<>>
    ELSE LET d == DivLimbs(l, base, NLimbs, 0, l)
         IN Digits(d[1], base) \o <<DigitChars[d[2] + 1]>>

\* printf's %lu, %lx, %lo of the bit pattern.
UnsignedText(Num, base) ==
    IF IsZero(LongLimbs(Num)) THEN <<"0">> ELSE Digits(LongLimbs(Num), base)

\* printf's %ld.
SignedText(Num) ==
    IF Num < 0 THEN <<"-">> \o UnsignedText(0 - Num, 10)
    ELSE UnsignedText(Num, 10)

\* What snprintf writes for "%l" + conv.  conv = "b" reaches snprintf only
\* when m_Format changes between the reads of lines 438 and 445: the C
\* library then prints binary (glibc >= 2.35), the directive itself, or
\* fails with -1, which leaves Ret empty.
SnprintfOutcomes(conv, Num) ==
    CASE conv = "d" -> {SignedText(Num)}
      [] conv = "u" -> {UnsignedText(Num, 10)}
      [] conv = "x" -> {UnsignedText(Num, 16)}
      [] conv = "o" -> {UnsignedText(Num, 8)}
      [] OTHER -> {UnsignedText(Num, 2), <<"%", "l", "b">>, <<>>}

\* Lines 447-449: Ret.resize(Size + 1, 0) keeps the terminating NUL that
\* snprintf writes as the last character of Ret; Size = -1 (out = <<>>, no
\* conversion prints nothing) gives the empty string.
SnprintfRet(out) == IF out = <<>> THEN <<>> ELSE out \o <<NUL>>

\* Num & (1 << i), for i below 16.
RECURSIVE Pow2(_)
Pow2(i) == IF i = 0 THEN 1 ELSE 2 * Pow2(i - 1)

BitSet(Num, i) == (LongLimbs(Num)[1] \div Pow2(i)) % 2 = 1

\* Lines 453-464: for (char i = sizeof(long); i--;) over bits i = 7 .. 0.
RECURSIVE BinaryLoop(_, _, _, _)
BinaryLoop(Num, i, FirstOneFound, Ret) ==
    IF i = 0 THEN Ret
    ELSE LET j == i - 1
             found == FirstOneFound \/ BitSet(Num, j)
         IN BinaryLoop(Num, j, found,
                IF found
                THEN Ret \o <<IF BitSet(Num, j) THEN "1" ELSE "0">>
                ELSE Ret)

BinaryText(Num) ==
    LET Ret == BinaryLoop(Num, SizeofLong, FALSE, <<>>)
    IN IF Ret = <<>> THEN <<"0">> ELSE Ret

\* Mutant of Conversion: the decimal conversion whatever m_Format reads.
ConversionDecimal(Unsigned, f442, f445) == Unsigned

\* The conversion chosen at lines 442-445 from the two reads of m_Format.
Conversion(Unsigned, f442, f445) == IF f442 = "d" THEN Unsigned ELSE f445

\* The strings FormatIntegral can return when m_Format reads f for all
\* its reads (no concurrent SetNumFormat).
FormatIntegral(Num, Unsigned, f) ==
    IF f # "b"
    THEN {SnprintfRet(o) :
            o \in SnprintfOutcomes(Conversion(Unsigned, f, f), Num)}
    ELSE {BinaryText(Num)}

\* ------------------------------------------------------ appended values
\* operator<< for bool, std::string / const char*, floating point; Put(char).
BoolText(val) ==
    IF val THEN <<"t", "r", "u", "e">> ELSE <<"f", "a", "l", "s", "e">>

\* std::to_string(1.5)
FloatText == <<"1", ".", "5", "0", "0", "0", "0", "0", "0">>

\* Each thread passes strings over its own letter, so that the origin of a
\* character of a buffer can be read off the buffer.
LetterOf(t) == IF t = "t1" THEN "A" ELSE "B"
Letters == {LetterOf(t) : t \in Threads}

\* --------------------------------------------------------------- callbacks
\* m_Output and m_FormatMessage hold the default member function or a
\* function of the caller; m_OutFile points to the DefaultFileOut made by the
\* constructor or to an IFileOut of the caller.
DefaultOutput == "ConsoleOut"
UserOutput == "userOutput"
DefaultFormat == "FormatMessage"
UserFormat == "userFormat"
DefaultSink == "DefaultFileOut"
UserSink == "userFileOut"

\* Callbacks of the caller that lock the mutex GetLock() returns (lines
\* 382-385), or call a locking member function of the logger, before they do
\* anything else; the sink does so in WriteToFile.
RelockOutput == "relockOutput"
RelockFormat == "relockFormat"
RelockSink == "relockFileOut"
Relocks(cb) == cb \in {RelockOutput, RelockFormat, RelockSink}

Sinks == {DefaultSink, UserSink, RelockSink}

TimeStamp == "<%F %H:%M:%S>"

\* CLog::FormatMessage, lines 488-510.
FormatMessage(buf) ==
    Spaces(U32ToNat(buf.Level))
    \o (IF buf.ShowTime
        THEN <<"[", SP, TimeStamp, SP, "]", SP>>
        ELSE <<>>)
    \o (IF buf.Tag # <<>>
        THEN <<"[", SP>> \o buf.Tag \o <<SP, "]", SP>>
        ELSE <<>>)
    \o buf.Message

\* A format callback of the caller: the tag, a colon and the message.
CallFormat(cb, buf) ==
    IF cb = DefaultFormat THEN FormatMessage(buf)
    ELSE buf.Tag \o <<":">> \o buf.Message

\* Mutant of FilterPass: < for <=.
FilterPassBelow(buf, LogDebug, Level) ==
    /\ LogDebug \/ (~LogDebug /\ ~buf.DebugMsg)
    /\ buf.Level # Level /\ LeqU32(buf.Level, Level)

\* Lines 233 and 256: the filter of Flush and FlushAll.
FilterPass(buf, LogDebug, Level) ==
    (LogDebug \/ (~LogDebug /\ ~buf.DebugMsg)) /\ LeqU32(buf.Level, Level)

\* -------------------------------------------------------------- file sinks
\* A sink object: whether its file is open, and for the std::ofstream of
\* DefaultFileOut the stream's failbit (a failed open sets it and throws
\* nothing; a successful open clears it).  ok says whether the operating
\* system can open the path.  An IFileOut of the caller reports a failed
\* open by throwing.
SinkOpen(s, id, ok) ==
    IF id = DefaultSink
    THEN IF s[id].open
         THEN [s EXCEPT ![id].failbit = TRUE]
         ELSE [s EXCEPT ![id] = [open |-> ok, failbit |-> ~ok]]
    ELSE IF ok THEN [s EXCEPT ![id].open = TRUE] ELSE s

OpenThrows(id, ok) == id # DefaultSink /\ ~ok

\* Mutant of SinkClose: the file stays as it was.
SinkKeepsOpen(s, id) == s

\* DefaultFileOut::CloseFile, lines 409-413, and the caller's CloseFile.
SinkClose(s, id) == [s EXCEPT ![id].open = FALSE]

\* ------------------------------------------------------------------- state
VARIABLES
    m_Buffers,        \* std::map<std::thread::id, Buffer>
    m_LogToFile,
    m_LogDebug,
    m_Format,         \* 'd', 'x', 'o' or 'b'
    m_Level,          \* uint32_t
    m_Output,
    m_FormatMessage,
    m_OutFile,
    m_LogLock,        \* the thread holding the mutex, or NoThread
    sink,             \* the state of each IFileOut object
    pc,               \* each thread's position
    local,            \* each thread's locals of the call it is in
    phase,            \* "running", "destroying" (inside ~CLog) or "destroyed"
    nOps,             \* calls started so far
    last,             \* the step taken last: [op, by, again]; again tells
                      \* that the step before it began the same call
    io,               \* per buffer owner: the callback calls of its last flush
    hist,             \* per thread: texts appended since its own last Flush
    histSince,        \* the same, also emptied when a FlushAll erases the buffer
    ret,              \* how the last LogToFile ended: [ok, threw]
    fi,               \* the last FormatIntegral call: [Num, conv, text]
    pass,             \* the current FlushAll pass: [start, count]
    td                \* what ~CLog found when it started: [bufs, flag]

vars ==
    <<m_Buffers, m_LogToFile, m_LogDebug, m_Format, m_Level, m_Output,
      m_FormatMessage, m_OutFile, m_LogLock, sink, pc, local, phase, nOps,
      last, io, hist, histSince, ret, fi, pass, td>>

settings == <<m_LogDebug, m_Format, m_Level>>
callbacks == <<m_Output, m_FormatMessage>>
fileVars == <<m_LogToFile, m_OutFile, sink>>
appended == <<hist, histSince>>
passVars == <<pass, td, phase>>

EmptyMap == [u \in {} |-> DefaultBuffer]
NoLocal ==
    [buf |-> DefaultBuffer, Message |-> <<>>, IT |-> "end",
     arg |-> [Num |-> 0, Unsigned |-> "d"], f438 |-> "d", f442 |-> "d",
     dtor |-> FALSE]
NoFi == [Num |-> 0, conv |-> "none", text |-> <<>>]
NoIo == [rendered |-> <<>>, console |-> <<>>, file |-> <<>>]
NoPass == [start |-> {}, count |-> [u \in Threads |-> 0]]

\* CLog::CLog(), lines 87-96.
Init ==
    /\ m_Buffers = EmptyMap
    /\ m_LogToFile = FALSE
    /\ m_LogDebug = FALSE
    /\ m_Format = "d"
    /\ m_Level = U32(-1)
    /\ m_Output = DefaultOutput
    /\ m_FormatMessage = DefaultFormat
    /\ m_OutFile = DefaultSink
    /\ m_LogLock = NoThread
    /\ sink = [s \in Sinks |-> [open |-> FALSE, failbit |-> FALSE]]
    /\ pc = [t \in Threads |-> "idle"]
    /\ local = [t \in Threads |-> NoLocal]
    /\ phase = "running"
    /\ nOps = 0
    /\ last = [op |-> "CLog", by |-> NoThread, again |-> FALSE]
    /\ io = [t \in Threads |-> NoIo]
    /\ hist = [t \in Threads |-> <<>>]
    /\ histSince = [t \in Threads |-> <<>>]
    /\ ret = [ok |-> TRUE, threw |-> FALSE]
    /\ fi = NoFi
    /\ pass = NoPass
    /\ td = [bufs |-> EmptyMap, flag |-> FALSE]

\* A thread may start a call: it is in none, and the logger is alive.
CanStart(t) == pc[t] = "idle" /\ phase = "running" /\ nOps < MaxOps

\* Mutant of CanLock: the call goes on whoever holds the mutex.
LockIgnored(t) == CanStart(t)

\* std::lock_guard<std::mutex> lock(m_LogLock) at the start of a call.
CanLock(t) == CanStart(t) /\ m_LogLock = NoThread

Took(t, op) == [op |-> op, by |-> t, again |-> last.op = op /\ last.by = t]
Began(t, op) == nOps' = nOps + 1 /\ last' = Took(t, op)
Stepped(t, op) == nOps' = nOps /\ last' = Took(t, op)

\* ------------------------------------------------------------------ appends
\* The body shared by the append operators: m_Buffers[id].Message += text
\* under the lock, as one step.
AppendText(t, op, text) ==
    /\ CanLock(t)
    /\ m_Buffers' = PutMessage(m_Buffers, t, text)
    /\ hist' = [hist EXCEPT ![t] = Append(@, text)]
    /\ histSince' = [histSince EXCEPT ![t] = Append(@, text)]
    /\ Began(t, op)
    /\ UNCHANGED <<settings, callbacks, fileVars, m_LogLock, pc, local, io,
                   ret, fi, passVars>>

\* operator<<(const std::string&), lines 196-201 (and const char*, 208-211).
ShlString(t) ==
    AppendText(t, "operator<<(string)", <<LetterOf(t)>>)

\* operator<<(bool), lines 180-189.
ShlBool(t) == \E val \in BOOLEAN : AppendText(t, "operator<<(bool)", BoolText(val))

\* operator<< for floating point, lines 165-171.
ShlFloat(t) == AppendText(t, "operator<<(double)", FloatText)

\* Put, lines 274-278.
Put(t) == \E c \in {"\n"} : AppendText(t, "Put", <<c>>)

\* The integral values passed to operator<<: (long)val with Unsigned = "d",
\* (unsigned long)val with Unsigned = "u" (lines 470-478).
IntegralInputs == {[Num |-> 15, Unsigned |-> "u"], [Num |-> -1, Unsigned |-> "d"]}

\* The end of an integral operator<<: the text FormatIntegral returned for
\* the conversion conv is appended and the lock released.
IntegralDone(t, Num, conv, text, op) ==
    /\ m_Buffers' = PutMessage(m_Buffers, t, text)
    /\ hist' = [hist EXCEPT ![t] = Append(@, text)]
    /\ histSince' = [histSince EXCEPT ![t] = Append(@, text)]
    /\ m_LogLock' = NoThread
    /\ pc' = [pc EXCEPT ![t] = "idle"]
    /\ local' = [local EXCEPT ![t] = NoLocal]
    /\ fi' = [Num |-> Num, conv |-> conv, text |-> text]
    /\ last' = Took(t, op)

\* operator<< for integrals, lines 139-158, up to FormatIntegral's first read
\* of m_Format (line 438).  In binary mode the call ends here.
ShlIntegralOf(t, in) ==
    /\ CanLock(t)
    /\ nOps' = nOps + 1
    /\ IF m_Format = "b"
       THEN IntegralDone(t, in.Num, "b", BinaryText(in.Num),
                         "operator<<(integral)")
       ELSE /\ m_LogLock' = t
            /\ pc' = [pc EXCEPT ![t] = "FI_442"]
            /\ local' = [local EXCEPT ![t].arg = in, ![t].f438 = m_Format]
            /\ last' = Took(t, "operator<<(integral)")
            /\ UNCHANGED <<m_Buffers, appended, fi>>
    /\ UNCHANGED <<settings, callbacks, fileVars, io, ret, passVars>>

ShlIntegral(t) == \E in \in IntegralInputs : ShlIntegralOf(t, in)

\* snprintf with the conversion conv, then the append.
FormatAndAppend(t, conv, op) ==
    \E o \in SnprintfOutcomes(conv, local[t].arg.Num) :
        IntegralDone(t, local[t].arg.Num, conv, SnprintfRet(o), op)

\* FormatIntegral, line 442: the second read of m_Format.
FormatIntegral_442(t) ==
    /\ pc[t] = "FI_442"
    /\ IF m_Format = "d"
       THEN FormatAndAppend(t,
                Conversion(local[t].arg.Unsigned, m_Format, m_Format),
                "FormatIntegral_442")
       ELSE /\ pc' = [pc EXCEPT ![t] = "FI_445"]
            /\ local' = [local EXCEPT ![t].f442 = m_Format]
            /\ last' = Took(t, "FormatIntegral_442")
            /\ UNCHANGED <<m_Buffers, appended, m_LogLock, fi>>
    /\ UNCHANGED <<settings, callbacks, fileVars, io, ret, passVars, nOps>>

\* FormatIntegral, line 445: the third read of m_Format, then snprintf.
FormatIntegral_445(t) ==
    /\ pc[t] = "FI_445"
    /\ FormatAndAppend(t,
           Conversion(local[t].arg.Unsigned, local[t].f442, m_Format),
           "FormatIntegral_445")
    /\ UNCHANGED <<settings, callbacks, fileVars, io, ret, passVars, nOps>>

\* ---------------------------------------------------------- buffer setters
\* Mutant of TagBuffer: line 293 is left out.
TagOnly(bufs, t, Tag) == [Subscript(bufs, t) EXCEPT ![t].Tag = Tag]

\* Lines 292-293.
TagBuffer(bufs, t, Tag) ==
    [Subscript(bufs, t) EXCEPT ![t].Tag = Tag, ![t].DebugMsg = (Tag = TagDebug)]

\* Line 302.
LevelBuffer(bufs, t, Level) == [Subscript(bufs, t) EXCEPT ![t].Level = Level]

\* Line 311.
TimeBuffer(bufs, t, Show) == [Subscript(bufs, t) EXCEPT ![t].ShowTime = Show]

BufferSetter(t, op, bufs) ==
    /\ CanLock(t)
    /\ m_Buffers' = bufs
    /\ Began(t, op)
    /\ UNCHANGED <<settings, callbacks, fileVars, m_LogLock, pc, local, io,
                   appended, ret, fi, passVars>>

\* SetTag, lines 289-294 (ltag, lerror, lwarning, linfo, ldebug).
SetTag(t) ==
    \E Tag \in {TagDebug, TagInfo} :
        BufferSetter(t, "SetTag", TagBuffer(m_Buffers, t, Tag))

\* SetLogLevel, lines 299-303 (llevel).
SetLogLevel(t) ==
    \E Level \in {5} :
        BufferSetter(t, "SetLogLevel", LevelBuffer(m_Buffers, t, U32(Level)))

\* ShowTimestamp, lines 308-312.
ShowTimestamp(t) ==
    \E Show \in {FALSE} :
        BufferSetter(t, "ShowTimestamp", TimeBuffer(m_Buffers, t, Show))

\* --------------------------------------------------------- global setters
\* ShowLogLevel, lines 319-322: no lock is taken.
ShowLogLevelTo(t, Level) ==
    /\ CanStart(t)
    /\ m_Level' = U32(Level)
    /\ Began(t, "ShowLogLevel")
    /\ UNCHANGED <<m_Buffers, m_LogDebug, m_Format, callbacks, fileVars,
                   m_LogLock, pc, local, io, appended, ret, fi, passVars>>

ShowLogLevel(t) == \E Level \in {0} : ShowLogLevelTo(t, Level)

\* EnableDebugLog, lines 329-333.
EnableDebugLog(t) ==
    \E State \in BOOLEAN :
        /\ CanLock(t)
        /\ m_LogDebug' = State
        /\ Began(t, "EnableDebugLog")
        /\ UNCHANGED <<m_Buffers, m_Level, m_Format, callbacks, fileVars,
                       m_LogLock, pc, local, io, appended, ret, fi, passVars>>

\* SetNumFormat, lines 340-343 (lhex, ldec, lbin, loct): no lock is taken.
SetNumFormatTo(t, format) ==
    /\ CanStart(t)
    /\ m_Format' = format
    /\ Began(t, "SetNumFormat")
    /\ UNCHANGED <<m_Buffers, m_LogDebug, m_Level, callbacks, fileVars,
                   m_LogLock, pc, local, io, appended, ret, fi, passVars>>

SetNumFormat(t) == \E format \in {"d", "x", "b"} : SetNumFormatTo(t, format)

\* SetOutputCallback, lines 352-355: no lock is taken.
SetOutputCallbackTo(t, cb) ==
    /\ CanStart(t)
    /\ m_Output' = cb
    /\ Began(t, "SetOutputCallback")
    /\ UNCHANGED <<m_Buffers, settings, m_FormatMessage, fileVars, m_LogLock,
                   pc, local, io, appended, ret, fi, passVars>>

SetOutputCallback(t) == SetOutputCallbackTo(t, UserOutput)

\* SetFormatCallback, lines 364-367: no lock is taken.
SetFormatCallbackTo(t, cb) ==
    /\ CanStart(t)
    /\ m_FormatMessage' = cb
    /\ Began(t, "SetFormatCallback")
    /\ UNCHANGED <<m_Buffers, settings, m_Output, fileVars, m_LogLock, pc,
                   local, io, appended, ret, fi, passVars>>

SetFormatCallback(t) == SetFormatCallbackTo(t, UserFormat)

\* SetFileOutCallback, lines 374-377: no lock is taken.  The assignment drops
\* the last reference to the DefaultFileOut, whose destructor closes its file
\* (lines 415-418).
SetFileOutCallbackTo(t, FileOut) ==
    /\ CanStart(t)
    /\ m_OutFile' = FileOut
    /\ sink' = IF m_OutFile = DefaultSink THEN SinkClose(sink, DefaultSink) ELSE sink
    /\ Began(t, "SetFileOutCallback")
    /\ UNCHANGED <<m_Buffers, settings, callbacks, m_LogToFile, m_LogLock, pc,
                   local, io, appended, ret, fi, passVars>>

SetFileOutCallback(t) == SetFileOutCallbackTo(t, UserSink)

\* -------------------------------------------------------------------- Flush
\* Mutant of FileWriteDue: the file is written whatever the flag.
FileWriteAlways(flag) == TRUE

\* Lines 238 and 261: if(m_LogToFile).
FileWriteDue(flag) == flag

\* The end of Flush, line 242: the entry is erased and the lock released.
FlushDone(t) ==
    /\ m_Buffers' = Erase(m_Buffers, t)
    /\ hist' = [hist EXCEPT ![t] = <<>>]
    /\ histSince' = [histSince EXCEPT ![t] = <<>>]
    /\ m_LogLock' = NoThread
    /\ pc' = [pc EXCEPT ![t] = "idle"]
    /\ local' = [local EXCEPT ![t] = NoLocal]

\* Flush, lines 230-233: the lock, the copy of m_Buffers[id] (which inserts a
\* default Buffer when the thread has none) and the filter.  A buffer the
\* filter drops is erased in the same step (line 242).
Flush(t) ==
    /\ CanLock(t)
    /\ Began(t, "Flush")
    /\ io' = [io EXCEPT ![t] = NoIo]
    /\ LET bufs == Subscript(m_Buffers, t)
       IN IF FilterPass(bufs[t], m_LogDebug, m_Level)
          THEN /\ m_Buffers' = bufs
               /\ m_LogLock' = t
               /\ pc' = [pc EXCEPT ![t] = "F_235"]
               /\ local' = [local EXCEPT ![t].buf = bufs[t]]
               /\ UNCHANGED appended
          ELSE /\ m_Buffers' = Erase(bufs, t)
               /\ hist' = [hist EXCEPT ![t] = <<>>]
               /\ histSince' = [histSince EXCEPT ![t] = <<>>]
               /\ UNCHANGED <<m_LogLock, pc, local>>
    /\ UNCHANGED <<settings, callbacks, fileVars, ret, fi, passVars>>

\* Line 235: std::string Message = m_FormatMessage(buf).
Flush_235(t) ==
    /\ pc[t] = "F_235"
    /\ ~Relocks(m_FormatMessage)
    /\ local' = [local EXCEPT ![t].Message = CallFormat(m_FormatMessage, local[t].buf)]
    /\ io' = [io EXCEPT ![t].rendered = Append(@, local[t].buf)]
    /\ pc' = [pc EXCEPT ![t] = "F_237"]
    /\ Stepped(t, "Flush_235")
    /\ UNCHANGED <<m_Buffers, settings, callbacks, fileVars, m_LogLock,
                   appended, ret, fi, passVars>>

\* Lines 237-238: m_Output(Message), then the test of m_LogToFile.
Flush_237(t) ==
    /\ pc[t] = "F_237"
    /\ ~Relocks(m_Output)
    /\ io' = [io EXCEPT ![t].console =
                 Append(@, [cb |-> m_Output, text |-> local[t].Message])]
    /\ IF FileWriteDue(m_LogToFile)
       THEN /\ pc' = [pc EXCEPT ![t] = "F_239"]
            /\ UNCHANGED <<m_Buffers, appended, m_LogLock, local>>
       ELSE FlushDone(t)
    /\ Stepped(t, "Flush_237")
    /\ UNCHANGED <<settings, callbacks, fileVars, ret, fi, passVars>>

\* Line 239: m_OutFile->WriteToFile(Message), then line 242.
Flush_239(t) ==
    /\ pc[t] = "F_239"
    /\ ~Relocks(m_OutFile)
    /\ io' = [io EXCEPT ![t].file =
                 Append(@, [to |-> m_OutFile, text |-> local[t].Message])]
    /\ FlushDone(t)
    /\ Stepped(t, "Flush_239")
    /\ UNCHANGED <<settings, callbacks, fileVars, ret, fi, passVars>>

\* ----------------------------------------------------------------- FlushAll
Pos(t) == CHOOSE i \in 1..Len(ThreadSeq) : ThreadSeq[i] = t

\* The first key of the map not below position p, or "end".
FromPos(bufs, p) ==
    LET later == {i \in p..Len(ThreadSeq) : ThreadSeq[i] \in DOMAIN bufs}
    IN IF later = {} THEN "end"
       ELSE ThreadSeq[CHOOSE i \in later : \A j \in later : i <= j]

\* m_Buffers.begin()
MapBegin(bufs) == FromPos(bufs, 1)

\* Mutant of MapNext: the loop stops after its first buffer.
MapNextEnd(bufs, it) == "end"

\* The iterator m_Buffers.erase(IT) returns: the entry after IT.
MapNext(bufs, it) == FromPos(bufs, Pos(it) + 1)

\* Line 265: IT = m_Buffers.erase(IT).  The owner's texts are gone with it.
EraseAt(t) ==
    LET it == local[t].IT
    IN /\ m_Buffers' = Erase(m_Buffers, it)
       /\ local' = [local EXCEPT ![t].IT = MapNext(m_Buffers, it),
                                 ![t].Message = <<>>]
       /\ histSince' = [histSince EXCEPT ![it] = <<>>]
       /\ pc' = [pc EXCEPT ![t] = "FA_254"]
       /\ UNCHANGED hist

\* Lines 252-253: the lock and IT = m_Buffers.begin().
FlushAllBegin(t, dtor) ==
    /\ m_LogLock = NoThread
    /\ m_LogLock' = t
    /\ local' = [local EXCEPT ![t].IT = MapBegin(m_Buffers), ![t].dtor = dtor]
    /\ pc' = [pc EXCEPT ![t] = "FA_254"]
    /\ pass' = [start |-> DOMAIN m_Buffers, count |-> [u \in Threads |-> 0]]
    /\ UNCHANGED <<m_Buffers, settings, callbacks, fileVars, io, appended, ret, fi>>

FlushAll(t) ==
    /\ CanStart(t)
    /\ FlushAllBegin(t, FALSE)
    /\ Began(t, "FlushAll")
    /\ UNCHANGED <<td, phase>>

\* Lines 254-256: the loop test and the filter on IT->second.  At the end of
\* the map the lock is released; inside ~CLog, CloseLogFile follows.
FlushAll_254(t) ==
    /\ pc[t] = "FA_254"
    /\ Stepped(t, "FlushAll_254")
    /\ LET it == local[t].IT
       IN IF it = "end"
          THEN /\ m_LogLock' = NoThread
               /\ pc' = [pc EXCEPT ![t] = IF local[t].dtor THEN "D_390" ELSE "idle"]
               /\ local' = [local EXCEPT ![t] = NoLocal]
               /\ UNCHANGED <<m_Buffers, appended, io, pass>>
          ELSE /\ io' = [io EXCEPT ![it] = NoIo]
               /\ pass' = [pass EXCEPT !.count[it] = @ + 1]
               /\ UNCHANGED m_LogLock
               /\ IF FilterPass(m_Buffers[it], m_LogDebug, m_Level)
                  THEN /\ pc' = [pc EXCEPT ![t] = "FA_258"]
                       /\ UNCHANGED <<m_Buffers, appended, local>>
                  ELSE EraseAt(t)
    /\ UNCHANGED <<settings, callbacks, fileVars, ret, fi, td, phase>>

\* Line 258: std::string Message = m_FormatMessage(IT->second).
FlushAll_258(t) ==
    /\ pc[t] = "FA_258"
    /\ ~Relocks(m_FormatMessage)
    /\ LET it == local[t].IT
       IN /\ local' = [local EXCEPT ![t].Message =
                          CallFormat(m_FormatMessage, m_Buffers[it])]
          /\ io' = [io EXCEPT ![it].rendered = Append(@, m_Buffers[it])]
    /\ pc' = [pc EXCEPT ![t] = "FA_260"]
    /\ Stepped(t, "FlushAll_258")
    /\ UNCHANGED <<m_Buffers, settings, callbacks, fileVars, m_LogLock,
                   appended, ret, fi, passVars>>

\* Lines 260-261: m_Output(Message), then the test of m_LogToFile.
FlushAll_260(t) ==
    /\ pc[t] = "FA_260"
    /\ ~Relocks(m_Output)
    /\ io' = [io EXCEPT ![local[t].IT].console =
                 Append(@, [cb |-> m_Output, text |-> local[t].Message])]
    /\ IF FileWriteDue(m_LogToFile)
       THEN /\ pc' = [pc EXCEPT ![t] = "FA_262"]
            /\ UNCHANGED <<m_Buffers, appended, local>>
       ELSE EraseAt(t)
    /\ Stepped(t, "FlushAll_260")
    /\ UNCHANGED <<settings, callbacks, fileVars, m_LogLock, ret, fi, passVars>>

\* Line 262: m_OutFile->WriteToFile(Message), then line 265.
FlushAll_262(t) ==
    /\ pc[t] = "FA_262"
    /\ ~Relocks(m_OutFile)
    /\ io' = [io EXCEPT ![local[t].IT].file =
                 Append(@, [to |-> m_OutFile, text |-> local[t].Message])]
    /\ EraseAt(t)
    /\ Stepped(t, "FlushAll_262")
    /\ UNCHANGED <<settings, callbacks, fileVars, m_LogLock, ret, fi, passVars>>

\* ------------------------------------------------- LogToFile, CloseLogFile
\* CloseLogFile, lines 124-129.
CloseLogFile(t) ==
    /\ CanLock(t)
    /\ m_LogToFile' = FALSE
    /\ sink' = SinkClose(sink, m_OutFile)
    /\ Began(t, "CloseLogFile")
    /\ UNCHANGED <<m_Buffers, settings, callbacks, m_OutFile, m_LogLock, pc,
                   local, io, appended, ret, fi, passVars>>

\* LogToFile, line 110: the call of CloseLogFile, which takes and releases
\* the lock.
LogToFile(t) ==
    /\ CanLock(t)
    /\ m_LogToFile' = FALSE
    /\ sink' = SinkClose(sink, m_OutFile)
    /\ pc' = [pc EXCEPT ![t] = "L_112"]
    /\ Began(t, "LogToFile")
    /\ UNCHANGED <<m_Buffers, settings, callbacks, m_OutFile, m_LogLock,
                   local, io, appended, ret, fi, passVars>>

\* The flag after lines 113-114: an exception of OpenFile leaves line 114
\* unexecuted.
FlagAfterOpen(flag, id, ok) == IF OpenThrows(id, ok) THEN flag ELSE TRUE

\* LogToFile, lines 112-114: the lock again, OpenFile, m_LogToFile = true.
LogToFile_112(t) ==
    \E ok \in BOOLEAN :
        /\ pc[t] = "L_112"
        /\ m_LogLock = NoThread
        /\ sink' = SinkOpen(sink, m_OutFile, ok)
        /\ m_LogToFile' = FlagAfterOpen(m_LogToFile, m_OutFile, ok)
        /\ ret' = [ok |-> sink'[m_OutFile].open /\ ~sink'[m_OutFile].failbit,
                   threw |-> OpenThrows(m_OutFile, ok)]
        /\ pc' = [pc EXCEPT ![t] = "idle"]
        /\ Stepped(t, "LogToFile_112")
        /\ UNCHANGED <<m_Buffers, settings, callbacks, m_OutFile, m_LogLock,
                       local, io, appended, fi, passVars>>

\* -------------------------------------------------------------------- ~CLog
\* ~CLog, line 389: FlushAll().  The destructor runs when no thread is inside
\* a call, and no call starts once it runs.
Destructor(t) ==
    /\ CanStart(t)
    /\ \A u \in Threads : pc[u] = "idle"
    /\ FlushAllBegin(t, TRUE)
    /\ phase' = "destroying"
    /\ td' = [bufs |-> m_Buffers, flag |-> m_LogToFile]
    /\ Began(t, "~CLog")

\* ~CLog, line 390: CloseLogFile().
Destructor_390(t) ==
    /\ pc[t] = "D_390"
    /\ m_LogLock = NoThread
    /\ m_LogToFile' = FALSE
    /\ sink' = SinkClose(sink, m_OutFile)
    /\ pc' = [pc EXCEPT ![t] = "idle"]
    /\ phase' = "destroyed"
    /\ Stepped(t, "~CLog_390")
    /\ UNCHANGED <<m_Buffers, settings, callbacks, m_OutFile, m_LogLock,
                   local, io, appended, ret, fi, pass, td>>

\* ----------------------------------------------------------- specification
Next ==
    \E t \in Threads :
        \/ ShlString(t)
        \/ ShlBool(t)
        \/ ShlFloat(t)
        \/ Put(t)
        \/ ShlIntegral(t)
        \/ FormatIntegral_442(t)
        \/ FormatIntegral_445(t)
        \/ SetTag(t)
        \/ SetLogLevel(t)
        \/ ShowTimestamp(t)
        \/ ShowLogLevel(t)
        \/ EnableDebugLog(t)
        \/ SetNumFormat(t)
        \/ SetOutputCallback(t)
        \/ SetFormatCallback(t)
        \/ SetFileOutCallback(t)
        \/ Flush(t)
        \/ Flush_235(t)
        \/ Flush_237(t)
        \/ Flush_239(t)
        \/ FlushAll(t)
        \/ FlushAll_254(t)
        \/ FlushAll_258(t)
        \/ FlushAll_260(t)
        \/ FlushAll_262(t)
        \/ CloseLogFile(t)
        \/ LogToFile(t)
        \/ LogToFile_112(t)
        \/ Destructor(t)
        \/ Destructor_390(t)

Spec == Init /\ [][Next]_vars

\* The state after each thread has appended one string to its buffer (two
\* operator<<(string) calls from Init), from which a FlushAll pass over two
\* buffers and MaxOps further calls are explored.
InitBuffered ==
    /\ m_Buffers = [t \in Threads |-> [DefaultBuffer EXCEPT !.Message = <<LetterOf(t)>>]]
    /\ m_LogToFile = FALSE
    /\ m_LogDebug = FALSE
    /\ m_Format = "d"
    /\ m_Level = U32(-1)
    /\ m_Output = DefaultOutput
    /\ m_FormatMessage = DefaultFormat
    /\ m_OutFile = DefaultSink
    /\ m_LogLock = NoThread
    /\ sink = [s \in Sinks |-> [open |-> FALSE, failbit |-> FALSE]]
    /\ pc = [t \in Threads |-> "idle"]
    /\ local = [t \in Threads |-> NoLocal]
    /\ phase = "running"
    /\ nOps = 0
    /\ last = [op |-> "operator<<(string)", by |-> ThreadSeq[2], again |-> FALSE]
    /\ io = [t \in Threads |-> NoIo]
    /\ hist = [t \in Threads |-> <<<<LetterOf(t)>>>>]
    /\ histSince = [t \in Threads |-> <<<<LetterOf(t)>>>>]
    /\ ret = [ok |-> TRUE, threw |-> FALSE]
    /\ fi = NoFi
    /\ pass = NoPass
    /\ td = [bufs |-> EmptyMap, flag |-> FALSE]

SpecBuffered == InitBuffered /\ [][Next]_vars

\* ----------------------------------------------------- FormatIntegral alone
\* The values and the argument types (long, unsigned long) FormatIntegral is
\* applied to, and the modes lbin, ldec, lhex, loct set.
FormatNums == {0, 1, 15, 255, 256, -1, -256}
FormatInputs == [Num : FormatNums, Unsigned : {"d", "u"}]
FormatModes == {"d", "x", "o", "b"}

\* One thread sets modes and appends integrals: every FormatIntegral call
\* reads one value of m_Format.
NextFormat ==
    LET t == ThreadSeq[1]
    IN \/ \E format \in FormatModes : SetNumFormatTo(t, format)
       \/ \E in \in FormatInputs : ShlIntegralOf(t, in)
       \/ FormatIntegral_442(t)
       \/ FormatIntegral_445(t)

SpecFormat == Init /\ [][NextFormat]_vars

\* ------------------------------------------------- callbacks that lock again
\* The callback a thread inside Flush or FlushAll is about to call.
CallbackDue(t) ==
    CASE pc[t] \in {"F_235", "FA_258"} -> m_FormatMessage
      [] pc[t] \in {"F_237", "FA_260"} -> m_Output
      [] pc[t] \in {"F_239", "FA_262"} -> m_OutFile
      [] OTHER -> "none"

\* What std::mutex::lock() does when the calling thread owns the mutex: the
\* behaviour is undefined; the call blocks for ever, or an implementation
\* that detects it throws std::system_error (resource_deadlock_would_occur).
LockOutcomes == {"blocks", "throws"}

\* The call of a callback that locks m_LogLock, from lines 235-239 or
\* 258-262, by the thread whose lock_guard holds it.  A throw leaves Flush
\* or FlushAll through the lock_guard, before the buffer is erased.
Relock(t) ==
    /\ Relocks(CallbackDue(t))
    /\ m_LogLock = t
    /\ \E outcome \in LockOutcomes :
          IF outcome = "blocks"
          THEN /\ pc' = [pc EXCEPT ![t] = "blocked"]
               /\ UNCHANGED <<m_LogLock, local>>
          ELSE /\ pc' = [pc EXCEPT ![t] = "idle"]
               /\ m_LogLock' = NoThread
               /\ local' = [local EXCEPT ![t] = NoLocal]
    /\ Stepped(t, "lock")
    /\ UNCHANGED <<m_Buffers, settings, callbacks, fileVars, io, appended,
                   ret, fi, passVars>>

\* Threads install such callbacks, append, switch file logging on, set the
\* level shown and flush.
NextRelock ==
    \E t \in Threads :
        \/ SetOutputCallbackTo(t, RelockOutput)
        \/ SetFormatCallbackTo(t, RelockFormat)
        \/ SetFileOutCallbackTo(t, RelockSink)
        \/ ShlString(t)
        \/ ShowLogLevel(t)
        \/ LogToFile(t)
        \/ LogToFile_112(t)
        \/ Flush(t)
        \/ Flush_235(t)
        \/ Flush_237(t)
        \/ Flush_239(t)
        \/ FlushAll(t)
        \/ FlushAll_254(t)
        \/ FlushAll_258(t)
        \/ FlushAll_260(t)
        \/ FlushAll_262(t)
        \/ Relock(t)

SpecRelock == Init /\ [][NextRelock]_vars

\* ------------------------------------------------------- the example program
\* main.cpp, lines 11-14: the calls of the main thread up to the end of its
\* first message, with the timestamp switched off and the message flushed
\* by Flush.
DemoScript ==
    <<"LogToFile", "EnableDebugLog", "ShowLogLevel", "SetLogLevel", "SetTag",
      "ShowTimestamp", "SetNumFormat", "operator<<(integral)",
      "operator<<(string)", "operator<<(bool)", "SetNumFormat",
      "operator<<(integral)", "Flush">>

DemoThread == ThreadSeq[1]
OtherThread == ThreadSeq[2]

\* The main thread's buffer, as operator[] would give it.
DemoBuffer == Subscript(m_Buffers, DemoThread)[DemoThread]

\* The logger after construction, with calls enough for the script and
\* MaxOps calls of another thread.
InitDemo ==
    /\ m_Buffers = EmptyMap
    /\ m_LogToFile = FALSE
    /\ m_LogDebug = FALSE
    /\ m_Format = "d"
    /\ m_Level = U32(-1)
    /\ m_Output = DefaultOutput
    /\ m_FormatMessage = DefaultFormat
    /\ m_OutFile = DefaultSink
    /\ m_LogLock = NoThread
    /\ sink = [s \in Sinks |-> [open |-> FALSE, failbit |-> FALSE]]
    /\ pc = [t \in Threads |-> "idle"]
    /\ local = [t \in Threads |-> NoLocal]
    /\ phase = "running"
    /\ nOps = 0 - Len(DemoScript)
    /\ last = [op |-> "CLog", by |-> NoThread, again |-> FALSE]
    /\ io = [t \in Threads |-> NoIo]
    /\ hist = [t \in Threads |-> <<>>]
    /\ histSince = [t \in Threads |-> <<>>]
    /\ ret = [ok |-> TRUE, threw |-> FALSE]
    /\ fi = NoFi
    /\ pass = NoPass
    /\ td = [bufs |-> EmptyMap, flag |-> FALSE]

\* The calls before the message: lines 11-13.
DemoSetup(t) ==
    \/ /\ ~m_LogToFile /\ ~m_LogDebug
       /\ LogToFile(t)
    \/ /\ m_LogToFile /\ ~m_LogDebug
       /\ EnableDebugLog(t)
       /\ m_LogDebug'
    \/ /\ m_LogDebug /\ m_Level = U32(-1)
       /\ ShowLogLevelTo(t, 5)

\* llevel(5), ldebug and the timestamp of line 14.
DemoHeader(t) ==
    /\ m_Level = U32(5) /\ io[t] = NoIo /\ hist[t] = <<>>
    /\ \/ /\ t \notin DOMAIN m_Buffers
          /\ SetLogLevel(t)
       \/ /\ t \in DOMAIN m_Buffers
          /\ DemoBuffer.Tag = <<>>
          /\ SetTag(t)
          /\ m_Buffers'[t].Tag = TagDebug
       \/ /\ DemoBuffer.Tag = TagDebug /\ DemoBuffer.ShowTime
          /\ ShowTimestamp(t)

\* lbin << (unsigned long)0xF << string(" Test ") << true << lhex << 0xff.
DemoMessage(t) ==
    /\ t \in DOMAIN m_Buffers /\ ~DemoBuffer.ShowTime
    /\ \/ /\ hist[t] = <<>> /\ m_Format = "d"
          /\ SetNumFormatTo(t, "b")
       \/ /\ hist[t] = <<>> /\ m_Format = "b"
          /\ ShlIntegralOf(t, [Num |-> 15, Unsigned |-> "u"])
       \/ /\ Len(hist[t]) = 1
          /\ AppendText(t, "operator<<(string)",
                        <<SP, "T", "e", "s", "t", SP>>)
       \/ /\ Len(hist[t]) = 2
          /\ AppendText(t, "operator<<(bool)", BoolText(TRUE))
       \/ /\ Len(hist[t]) = 3 /\ m_Format = "b"
          /\ SetNumFormatTo(t, "x")
       \/ /\ Len(hist[t]) = 3 /\ m_Format = "x"
          /\ ShlIntegralOf(t, [Num |-> 255, Unsigned |-> "d"])
       \/ /\ Len(hist[t]) = 4
          /\ Flush(t)

\* Another thread composes and flushes one message of its own meanwhile.
DemoOther(t) ==
    /\ io[t] = NoIo
    /\ \/ /\ Len(hist[t]) < MaxOps
          /\ (ShlString(t) \/ ShlBool(t))
       \/ /\ hist[t] # <<>>
          /\ Flush(t)

NextDemo ==
    \/ DemoSetup(DemoThread)
    \/ DemoHeader(DemoThread)
    \/ DemoMessage(DemoThread)
    \/ DemoOther(OtherThread)
    \/ \E t \in Threads :
          \/ LogToFile_112(t)
          \/ FormatIntegral_442(t)
          \/ FormatIntegral_445(t)
          \/ Flush_235(t)
          \/ Flush_237(t)
          \/ Flush_239(t)

SpecDemo == InitDemo /\ [][NextDemo]_vars

\* ------------------------------------------------------------------ claims
FlushOps == {"Flush", "Flush_237", "Flush_239"}
AppendOps ==
    {"operator<<(string)", "operator<<(bool)", "operator<<(double)", "Put",
     "operator<<(integral)", "FormatIntegral_442", "FormatIntegral_445"}
BufferOps == AppendOps \cup {"SetTag", "SetLogLevel", "ShowTimestamp"}

\* Thread t's Flush has just returned.
FlushReturned(t) == last.by = t /\ last.op \in FlushOps /\ pc[t] = "idle"

\* The buffer Flush by t works on: the thread's entry, or a default one.
BufferOf(t) == IF t \in DOMAIN m_Buffers THEN m_Buffers[t] ELSE DefaultBuffer

\* C1: Flush by thread T renders T's buffer iff (debugEnabled or not
\* buffer.isDebug) and buffer.level <= maxVisibleLevel, with the values of
\* the moment of the flush: when the predicate holds, the call goes on to
\* the renderer and the console sink and returns having called each; when it
\* does not, the call returns at once having called no renderer and no sink.
C1_FlushFilter ==
    /\ [][\A t \in Threads :
            (last'.op = "Flush" /\ last'.by = t /\ nOps' = nOps + 1) =>
                LET visible ==
                        /\ m_LogDebug \/ ~BufferOf(t).DebugMsg
                        /\ LeqU32(BufferOf(t).Level, m_Level)
                IN /\ visible => pc'[t] = "F_235"
                   /\ ~visible => pc'[t] = "idle" /\ io'[t] = NoIo]_vars
    /\ [](\A t \in Threads :
            /\ pc[t] \in {"F_237", "F_239"} => Len(io[t].rendered) = 1
            /\ pc[t] = "F_239" => Len(io[t].console) = 1
            /\ (FlushReturned(t) /\ last.op # "Flush") =>
                   Len(io[t].rendered) = 1 /\ Len(io[t].console) = 1)

\* A Flush of a level-5 or debug buffer that the filter dropped.
C1_Witness ==
    \E t \in Threads :
        /\ FlushReturned(t) /\ last.op = "Flush"
        /\ io[t] = NoIo
        /\ m_Level = U32(0)

\* C2: after Flush by T the map has no entry for T, whether the message
\* passed the filter or not and also when T had no buffer; the next
\* append-like call by T creates a buffer with default metadata that holds
\* nothing but the appended text.
C2_FlushRemoves ==
    /\ [](\A t \in Threads : FlushReturned(t) => t \notin DOMAIN m_Buffers)
    /\ [][\A t \in Threads :
            (last'.by = t /\ last'.op \in AppendOps
             /\ t \notin DOMAIN m_Buffers /\ t \in DOMAIN m_Buffers') =>
                /\ m_Buffers'[t].Tag = <<>>
                /\ m_Buffers'[t].Level = U32(0)
                /\ m_Buffers'[t].DebugMsg = FALSE
                /\ m_Buffers'[t].ShowTime = TRUE
                /\ Len(histSince'[t]) = 1
                /\ m_Buffers'[t].Message = histSince'[t][1]]_vars

\* T appended to a fresh buffer after a Flush of T that rendered.
C2_Witness ==
    \E t \in Threads :
        /\ last.op = "operator<<(string)" /\ last.by = t
        /\ Len(io[t].console) = 1
        /\ m_Buffers[t] = [DefaultBuffer EXCEPT !.Message = <<LetterOf(t)>>]

\* C3 as stated: the text of the buffer Flush hands to the renderer is the
\* concatenation, in order, of the texts the thread appended since its last
\* Flush.
C3_Original ==
    \A t \in Threads :
        pc[t] \in {"F_237", "F_239"} =>
            io[t].rendered[1].Message = Concat(hist[t])

\* C3 amended: the text of the buffer Flush hands to the renderer is the
\* concatenation, in order, of the texts the thread appended since the later
\* of its last Flush and the last FlushAll that erased its buffer.
C3_SinceErased ==
    \A t \in Threads :
        pc[t] \in {"F_237", "F_239"} =>
            io[t].rendered[1].Message = Concat(histSince[t])

\* A Flush that renders two appended texts.
C3_Witness ==
    \E t \in Threads :
        /\ pc[t] = "F_237"
        /\ Len(histSince[t]) = 2
        /\ io[t].rendered[1].Message # <<>>

\* C4: an append, SetTag, SetLogLevel or ShowTimestamp call of one thread
\* changes no other thread's buffer, and no buffer holds a letter that
\* another thread appended.
C4_Isolation ==
    /\ [][\A t \in Threads :
            (last'.by = t /\ last'.op \in BufferOps) =>
                \A u \in Threads \ {t} :
                    /\ (u \in DOMAIN m_Buffers') = (u \in DOMAIN m_Buffers)
                    /\ u \in DOMAIN m_Buffers => m_Buffers'[u] = m_Buffers[u]]_vars
    /\ [](\A t \in DOMAIN m_Buffers :
            \A i \in 1..Len(m_Buffers[t].Message) :
                m_Buffers[t].Message[i] \in Letters =>
                    m_Buffers[t].Message[i] = LetterOf(t))

\* Both threads are composing: each buffer holds its owner's letter and the
\* second thread has set its level.
C4_Witness ==
    /\ DOMAIN m_Buffers = Threads
    /\ \A t \in Threads : m_Buffers[t].Message = <<LetterOf(t)>>
    /\ \E t \in Threads : m_Buffers[t].Level = U32(5)

FlushPcs ==
    {"F_235", "F_237", "F_239", "FA_254", "FA_258", "FA_260", "FA_262"}

\* C5: every call that reads or writes shared state holds the lock for its
\* full duration, so m_Level, m_LogDebug and m_Format are written only by a
\* call that could take the lock: never while another thread holds it.
C5_Original ==
    [][(m_Level' # m_Level \/ m_LogDebug' # m_LogDebug \/ m_Format' # m_Format)
          => m_LogLock = NoThread]_vars

\* C6: when LogToFile returns after a failed open, the failure was thrown to
\* the caller and m_LogToFile is false; m_LogToFile is true only when the
\* open succeeded.
C6_Original ==
    last.op = "LogToFile_112" =>
        /\ ~ret.ok => (ret.threw /\ ~m_LogToFile)
        /\ m_LogToFile => ret.ok

\* The pass of thread t stands between two buffers: one is done and erased,
\* the iterator is at the next.
BetweenBuffers(t) ==
    /\ pc[t] = "FA_254"
    /\ local[t].IT # "end"
    /\ \E u \in Threads : pass.count[u] > 0

\* Thread t's FlushAll has just left its loop.
PassEnded(t) ==
    last.op = "FlushAll_254" /\ last.by = t /\ pc[t] \in {"idle", "D_390"}

\* C7: FlushAll handles every buffer tracked at its start exactly once,
\* no other logger call runs between two buffers of the pass, and the map is
\* empty when it returns.
C7_Original ==
    /\ [](\A t \in Threads :
            PassEnded(t) =>
                /\ m_Buffers = EmptyMap
                /\ \A u \in Threads :
                       pass.count[u] = IF u \in pass.start THEN 1 ELSE 0)
    /\ [][\A t \in Threads : BetweenBuffers(t) => last'.by = t]_vars

\* C7 without the unlocked setters: what of the claim the code keeps.  The
\* pass handles every buffer once and empties the map, and between two of
\* its buffers no call that takes the lock runs.
UnlockedOps ==
    {"ShowLogLevel", "SetNumFormat", "SetOutputCallback", "SetFormatCallback",
     "SetFileOutCallback"}
C7_LockedPart ==
    /\ [](\A t \in Threads :
            PassEnded(t) =>
                /\ m_Buffers = EmptyMap
                /\ \A u \in Threads :
                       pass.count[u] = IF u \in pass.start THEN 1 ELSE 0)
    /\ [][\A t \in Threads :
            BetweenBuffers(t) => (last'.by = t \/ last'.op \in UnlockedOps)]_vars

\* C8: ~CLog runs FlushAll and then CloseLogFile: every pending buffer that
\* passes the filter is given to the console sink, and to the file sink when
\* file logging was enabled, while the file sink is as the destructor found
\* it; afterwards no buffer remains and file logging is off.
C8_Teardown ==
    /\ [](phase = "destroyed" =>
            /\ m_Buffers = EmptyMap
            /\ ~m_LogToFile
            /\ ~sink[m_OutFile].open
            /\ \A u \in Threads :
                   LET n == IF /\ u \in DOMAIN td.bufs
                               /\ m_LogDebug \/ ~td.bufs[u].DebugMsg
                               /\ LeqU32(td.bufs[u].Level, m_Level)
                            THEN 1 ELSE 0
                   IN u \in DOMAIN td.bufs =>
                        /\ Len(io[u].console) = n
                        /\ Len(io[u].file) = IF td.flag THEN n ELSE 0
                        /\ \A i \in 1..Len(io[u].rendered) :
                               io[u].rendered[i] = td.bufs[u])
    /\ [][(phase = "destroying" /\ phase' = "destroying") =>
              (sink' = sink /\ m_LogToFile' = m_LogToFile /\ m_OutFile' = m_OutFile)]_vars

\* The destructor wrote a pending message to the console and to the file.
C8_Witness ==
    /\ phase = "destroyed"
    /\ td.flag
    /\ \E u \in DOMAIN td.bufs : Len(io[u].file) = 1 /\ Len(io[u].console) = 1

\* C9: for a flushed buffer that passes the filter the renderer is called
\* once, its result is written once to the console sink whatever the flag,
\* and once to the file sink iff m_LogToFile is true; WriteToFile is never
\* called while the flag is false.
C9_Sinks ==
    /\ [](\A u \in Threads :
            /\ Len(io[u].rendered) <= 1
            /\ Len(io[u].console) <= Len(io[u].rendered)
            /\ Len(io[u].file) <= Len(io[u].console)
            /\ \A i \in 1..Len(io[u].file) : io[u].file[i].text = io[u].console[i].text)
    /\ [](\A t \in Threads :
            (FlushReturned(t) /\ last.op # "Flush") =>
                /\ Len(io[t].rendered) = 1
                /\ Len(io[t].console) = 1
                /\ Len(io[t].file) = IF m_LogToFile THEN 1 ELSE 0)
    /\ [][\A t \in Threads :
            (pc[t] \in {"FA_260", "FA_262"} /\ pc'[t] = "FA_254") =>
                /\ Len(io'[local[t].IT].rendered) = 1
                /\ Len(io'[local[t].IT].console) = 1
                /\ Len(io'[local[t].IT].file) = IF m_LogToFile THEN 1 ELSE 0]_vars
    /\ [][(\E u \in Threads : io'[u].file # io[u].file /\ io'[u].file # <<>>)
              => m_LogToFile]_vars

\* A Flush wrote its message to the console and, file logging being on, to
\* the file.
C9_Witness ==
    \E t \in Threads :
        /\ FlushReturned(t)
        /\ m_LogToFile
        /\ Len(io[t].file) = 1
        /\ io[t].file[1].text = io[t].console[1].text

\* C10: m_Output, m_FormatMessage and m_OutFile are replaced under the lock:
\* never while a thread is inside Flush or FlushAll, which read them.
C10_Original ==
    [][(m_Output' # m_Output \/ m_FormatMessage' # m_FormatMessage
        \/ m_OutFile' # m_OutFile)
          => \A t \in Threads : pc[t] \notin FlushPcs]_vars

\* ---------------------------------------------------------------------- C11
\* The steps of CloseLogFile, LogToFile and ~CLog that call OpenFile or
\* CloseFile of the sink; each takes the mutex, calls and releases in one
\* step.
SinkCallOps == {"CloseLogFile", "LogToFile", "LogToFile_112", "~CLog_390"}

\* The step called the render callback, the console callback or WriteToFile
\* for the buffer of u.
CallbackCalled(u) ==
    \/ Len(io'[u].rendered) > Len(io[u].rendered)
    \/ Len(io'[u].console) > Len(io[u].console)
    \/ Len(io'[u].file) > Len(io[u].file)

C14_CloseIdempotent ==
    /\ [](last.op = "CloseLogFile" =>
            (~m_LogToFile /\ ~sink[m_OutFile].open))
    /\ [][(last.op = "CloseLogFile" /\ last'.op = "CloseLogFile") =>
            UNCHANGED <<m_Buffers, settings, callbacks, fileVars, m_LogLock,
                        pc, local, io, appended, ret, fi, passVars>>]_vars

C14_Witness ==
    /\ last.op = "CloseLogFile"
    /\ last.again
    /\ ~m_LogToFile
    /\ ~sink[m_OutFile].open

\* ---------------------------------------------------------------------- C17
\* C17: LogToFile closes and opens as one step: no step of another thread
\* falls between the close and the open of one LogToFile call, and OpenFile
\* is never called on a sink that is open.
C17_Original ==
    /\ [][\A t \in Threads : pc[t] = "L_112" => last'.by = t]_vars
    /\ [][last'.op = "LogToFile_112" => ~sink[m_OutFile].open]_vars

\* ---------------------------------------------------------------------- C18
\* C18: for every buffer of the map, DebugMsg is true exactly when the tag
\* is the string "debug".
C18_DebugFlag ==
    \A t \in DOMAIN m_Buffers :
        m_Buffers[t].DebugMsg <=> (m_Buffers[t].Tag = TagDebug)

C18_Witness ==
    \E t, u \in DOMAIN m_Buffers :
        /\ m_Buffers[t].Tag = TagDebug /\ m_Buffers[t].DebugMsg
        /\ m_Buffers[u].Tag = TagInfo /\ ~m_Buffers[u].DebugMsg

\* ---------------------------------------------------------------------- C19
\* C19: whenever the file-logging flag is true, the installed sink is open.
C19_Original == m_LogToFile => sink[m_OutFile].open

\* ---------------------------------------------------------------------- C12
\* The step ends an integral operator<< of t all of whose reads of m_Format
\* returned the value m_Format has now.
IntegralEnds(t) ==
    /\ last'.by = t
    /\ Len(hist'[t]) = Len(hist[t]) + 1
    /\ \/ pc[t] = "idle" /\ last'.op = "operator<<(integral)"
       \/ pc[t] = "FI_442" /\ local[t].f438 = m_Format
       \/ /\ pc[t] = "FI_445"
          /\ local[t].f438 = m_Format
          /\ local[t].f442 = m_Format

\* The printf conversion of a mode: the argument's own in decimal mode.
ModeConv(mode, Unsigned) == IF mode = "d" THEN Unsigned ELSE mode

EndsWith(s, tail) ==
    /\ Len(s) >= Len(tail)
    /\ SubSeq(s, Len(s) - Len(tail) + 1, Len(s)) = tail

\* C12: the numeric format is one setting of the logger, applied when a
\* value is appended: an integral append that reads the mode after a
\* SetNumFormat of any thread converts by that mode; SetNumFormat leaves
\* the buffers as they are; and Flush renders the texts as they were
\* appended, whatever the mode is by then.
C12_FormatAtAppend ==
    /\ [][\A t \in Threads :
            IntegralEnds(t) =>
                LET Unsigned == IF pc[t] = "idle" THEN "d"
                                ELSE local[t].arg.Unsigned
                IN /\ fi'.conv = ModeConv(m_Format, Unsigned)
                   /\ fi'.text \in FormatIntegral(fi'.Num, Unsigned, m_Format)
                   /\ hist'[t][Len(hist'[t])] = fi'.text]_vars
    /\ [][last'.op = "SetNumFormat" => m_Buffers' = m_Buffers]_vars
    /\ [](\A u \in Threads :
            pc[u] \in {"F_237", "F_239"} =>
                /\ io[u].rendered[1].Message = Concat(histSince[u])
                /\ EndsWith(local[u].Message, Concat(histSince[u])))

C12_Witness ==
    \E t \in DOMAIN m_Buffers :
        /\ m_Format = "x"
        /\ fi = [Num |-> 15, conv |-> "x", text |-> <<"f", NUL>>]
        /\ m_Buffers[t].Message = <<"1", "5", NUL, "f", NUL>>

\* ---------------------------------------------------------------------- C13
\* C13: in binary mode the text is the binary digits of the value's bit
\* pattern at the width of long, from the most significant set bit: "0" for
\* 0, "1111" for 15, as many ones as long has bits for -1.
C13_Original ==
    (last.op = "operator<<(integral)" /\ pc[last.by] = "idle") =>
        fi.text = UnsignedText(fi.Num, 2)

\* ---------------------------------------------------------------------- C16
\* C16: in decimal, hexadecimal and octal mode the text appended is exactly
\* the digit string printf writes for %ld, %lu, %lx, %lo: no prefix and no
\* character after the digits.
C16_Original ==
    fi.conv \in {"d", "u", "x", "o"} =>
        fi.text \in SnprintfOutcomes(fi.conv, fi.Num)

\* ---------------------------------------------------------------------- C15
\* C15: the example message (level 5, tag "debug", timestamp off; 0xF in
\* binary, " Test ", true, 0xff in hexadecimal) is rendered as five spaces,
\* "[ debug ] " and the body "1111 Test trueff".
C15_Original ==
    Len(io[DemoThread].console) = 1 =>
        io[DemoThread].console[1].text =
            <<SP, SP, SP, SP, SP, "[", SP, "d", "e", "b", "u", "g", SP, "]",
              SP, "1", "1", "1", "1", SP, "T", "e", "s", "t", SP, "t", "r",
              "u", "e", "f", "f">>

\* ---------------------------------------------------------------------- C20
\* The step ends the handling of the buffer of u by the FlushAll of t.
PassLeaves(t, u) ==
    /\ last'.by = t
    /\ pc[t] \in {"FA_254", "FA_260", "FA_262"}
    /\ local[t].IT = u
    /\ pc'[t] = "FA_254"

C21_Original ==
    /\ [][\A t \in Threads :
            (Relocks(CallbackDue(t)) /\ last'.by = t) =>
                pc'[t] = "blocked"]_vars
    /\ [][\A t \in Threads : pc[t] = "blocked" => pc'[t] = "blocked"]_vars
    /\ [][~(\E t \in Threads : pc[t] = "blocked")]_vars

====
